---- MODULE Spec2Model ----
\* Graph registry (Application/GraphManager.hpp) over the dense adjacency
\* matrix (Algo/Graph.hpp): worker threads call the registry's operations,
\* each operation runs inside one critical section of the registry's
\* std::shared_mutex.
EXTENDS Integers, Sequences, FiniteSets, TLC

\* ---------------------------------------------------------------- bounds
MaxW == 1          \* edge weights 0..MaxW
MaxCreates == 2    \* number of create calls (caps the 64-bit counter next_id_)
MaxBatch == 2      \* length of the list given to bash_set
MaxLiveCreates == 1  \* number of create calls in the specification with blocked calls
MaxAlgW == 3       \* edge weights 0..MaxAlgW of the matrices given to the algorithms
MaxBcW == 2        \* edge weights 0..MaxBcW of the matrices given to betweenness_centrality
MaxGarbage == 1    \* values 0..MaxGarbage that a read through an end iterator may yield
MaxScenarioNode == 9  \* largest node of the one-edge matrices given to the algorithms

\* the worker threads that call the registry
Threads == {"t1", "t2"}
NoThread == "none"

NO_EDGE == 0

\* the sizes given to create and the indices given as u, v, node, start:
\* the index 2 is out of range for every matrix
Sizes == 0..2
Indices == 0..2
Weights == 0..MaxW
\* the handles a caller may pass: each is absent before its create and
\* after its destroy
Ids == 1..MaxCreates

\* struct line { u, v, weight }
line == [u : Indices, v : Indices, weight : Weights]

\* ------------------------------------------------------------ Matrix Store
\* AdjMat(n): n_ = n, data_ = n*n zero-initialised cells (make_unique<uint16_t[]>);
\* n * n and i * n_ + j are 32-bit products, which do not wrap for the Sizes here
Cells(n) == n * n
\* a buffer that is allocated without value-initialisation
AdjMat_Uninit(n) == [n_ |-> n, data_ |-> [c \in 0..(Cells(n) - 1) |-> 1]]

AdjMat(n) == [n_ |-> n, data_ |-> [c \in 0..(Cells(n) - 1) |-> 0]]

check_bounds(mat, i) == ~(i >= mat.n_)

\* row-major offset of cell (i, j)
Offset(mat, i, j) == i * mat.n_ + j

\* data_[off] = w ; a store outside the buffer does not change the buffer
Store(mat, off, w) ==
    IF off \in DOMAIN mat.data_
    THEN [mat EXCEPT !.data_[off] = w]
    ELSE mat

\* exceptions: the C++ class thrown and its what() text
NoErr == [type |-> "none", what |-> ""]
OORIndex == [type |-> "std::out_of_range", what |-> "Index out of bounds"]
OORDiag == [type |-> "std::out_of_range", what |-> "Should not modify diagonal"]
OORNode == [type |-> "std::out_of_range", what |-> "Node index out of bounds"]
OORInvalidId == [type |-> "std::out_of_range", what |-> "Invalid graph ID"]
OORNotFound == [type |-> "std::out_of_range", what |-> "Graph not found"]

\* uint16_t operator()(i, j) const: the cell, or the exception thrown
Read(mat, i, j) ==
    IF ~(check_bounds(mat, i) /\ check_bounds(mat, j)) THEN OORIndex
    ELSE mat.data_[Offset(mat, i, j)]

\* bi_set / set without the test i == j
WriteCheck_NoDiag(mat, i, j) ==
    IF ~(check_bounds(mat, i) /\ check_bounds(mat, j)) THEN OORIndex
    ELSE NoErr

\* the checks bi_set and set make before they write: the exception they
\* throw, or NoErr
WriteCheck(mat, i, j) ==
    IF ~(check_bounds(mat, i) /\ check_bounds(mat, j)) THEN OORIndex
    ELSE IF i = j THEN OORDiag
    ELSE NoErr

\* void set(i, j, w): the matrix after the call (unchanged when it throws)
set(mat, i, j, w) ==
    IF WriteCheck(mat, i, j) # NoErr THEN mat
    ELSE Store(mat, Offset(mat, i, j), w)

\* void bi_set(i, j, w): the matrix after the call (unchanged when it throws)
bi_set(mat, i, j, w) ==
    IF WriteCheck(mat, i, j) # NoErr THEN mat
    ELSE Store(Store(mat, Offset(mat, i, j), w), Offset(mat, j, i), w)

\* ------------------------------------------------------------------ state
VARIABLES
    registry_,   \* handle -> AdjMat (the domain is the set of live handles)
    next_id_,    \* the handle counter
    mutex_,      \* [writer : thread or NoThread, readers : set of threads]
    pc,          \* per thread: position inside the operation
    op,          \* per thread: the operation called
    arg,         \* per thread: the call's arguments
    k,           \* per thread: index of the next line of set / bash_set
    l,           \* per thread: the line the loop of set / bash_set read last
    it,          \* per thread: the handle found by find / get_graph, or the id taken by create
    err,         \* per thread: the exception in flight
    ret,         \* per thread: the value to return
    pre,         \* per thread: registry_ when the critical section was entered
    stable,      \* registry_ when the last mutating call ended
    issued,      \* handles returned by create, in order of return
    ever,        \* handles that were inserted into registry_ at some time
    removed,     \* handles whose entry destroy or atexit removed
    hist         \* per thread: the lines the loop of set / bash_set has read, in order

vars == <<registry_, next_id_, mutex_, pc, op, arg, k, l, it, err, ret, pre, stable, issued, ever, removed, hist>>

Live == DOMAIN registry_

\* std::unordered_map with no entry
EmptyRegistry == [h \in {} |-> AdjMat(0)]

Mutating == {"create", "set", "bash_set", "destroy", "atexit"}
Lookups == {"exists", "list_ids"}
Algorithms == {"get_degree", "degree_stats", "isolated_nodes", "count_triangles",
               "shortest_path", "betweenness_centrality", "get_from", "get_to",
               "get_neighbours"}
Queries == Lookups \cup Algorithms
Ops == Mutating \cup Queries
\* the algorithms that take a node index (node / start)
Indexed == {"get_degree", "shortest_path", "get_from", "get_to", "get_neighbours"}

NoLine == [u |-> 0, v |-> 0, weight |-> 0]
NoArg == [id |-> 0, size |-> 0, len |-> 0, flag |-> FALSE, node |-> 0]
\* the values of ret are records, one field name per kind of result: a
\* create returns [id], destroy [erased], exists [contains], list_ids [ids],
\* get_degree [out, in], shortest_path [dist], count_triangles [count]
NoRet == [none |-> TRUE]
NoIt == 0
NoPre == [h \in {} |-> AdjMat(0)]

\* the arguments of a call of o that the operation reads before its first
\* step (flag is bi; len is lines.size()). The other arguments are constant
\* data of the caller that nothing reads before the operation uses them,
\* so each is drawn where the code first reads it: a line when the loop
\* reaches it, node / start at the algorithm's bounds check, directed in
\* get_degree's branch on it
ArgsOf(o) ==
    CASE o = "create" -> {[NoArg EXCEPT !.size = s] : s \in Sizes}
      [] o = "set" -> {[NoArg EXCEPT !.id = i, !.len = 1, !.flag = b] :
                          i \in Ids, b \in BOOLEAN}
      [] o = "bash_set" -> {[NoArg EXCEPT !.id = i, !.len = n, !.flag = b] :
                          i \in Ids, n \in 0..MaxBatch, b \in BOOLEAN}
      [] o \in {"atexit", "list_ids"} -> {NoArg}
      [] OTHER -> {[NoArg EXCEPT !.id = i] : i \in Ids}

Init ==
    /\ registry_ = EmptyRegistry
    /\ next_id_ = 1
    /\ mutex_ = [writer |-> NoThread, readers |-> {}]
    /\ pc = [t \in Threads |-> "idle"]
    /\ op = [t \in Threads |-> "none"]
    /\ arg = [t \in Threads |-> NoArg]
    /\ k = [t \in Threads |-> 0]
    /\ l = [t \in Threads |-> NoLine]
    /\ it = [t \in Threads |-> NoIt]
    /\ err = [t \in Threads |-> NoErr]
    /\ ret = [t \in Threads |-> NoRet]
    /\ pre = [t \in Threads |-> NoPre]
    /\ stable = EmptyRegistry
    /\ issued = << >>
    /\ ever = {}
    /\ removed = {}
    /\ hist = [t \in Threads |-> << >>]

\* ------------------------------------------------------------- the lock
\* a lock() that does not wait for the shared holders
CanLock_NoReaders == mutex_.writer = NoThread

\* std::shared_mutex::lock() returns when no thread holds the mutex
CanLock == mutex_.writer = NoThread /\ mutex_.readers = {}

\* a lock_shared() that does not wait for the exclusive holder
CanLockShared_NoWriter == TRUE

\* std::shared_mutex::lock_shared() returns when no thread holds it exclusively
CanLockShared == mutex_.writer = NoThread

\* set and bash_set under a std::shared_lock
Exclusive_SharedSet(o) == o \in {"create", "destroy", "atexit"}

\* the operations whose lock object is a std::lock_guard or std::unique_lock
\* (the others hold a std::shared_lock)
Exclusive(o) == o \in {"create", "set", "bash_set", "destroy", "atexit"}

FirstPc(o) ==
    CASE o = "create" -> "create_id"
      [] o \in {"set", "bash_set"} -> "find"
      [] o = "destroy" -> "erase"
      [] o = "atexit" -> "clear"
      [] o = "exists" -> "contains"
      [] o = "list_ids" -> "list"
      [] OTHER -> "get_graph"

\* a thread calls an operation o of the registry, which starts with the
\* constructor of std::lock_guard / std::unique_lock (mutating operations)
\* or std::shared_lock (queries); a thread that is blocked in it has not
\* taken this step yet
Acquire(t) ==
    /\ pc[t] = "idle"
    /\ \E o \in Ops :
        /\ o = "create" => next_id_ <= MaxCreates
        /\ IF Exclusive(o)
           THEN /\ CanLock
                /\ mutex_' = [mutex_ EXCEPT !.writer = t]
           ELSE /\ CanLockShared
                /\ mutex_' = [mutex_ EXCEPT !.readers = @ \cup {t}]
        /\ op' = [op EXCEPT ![t] = o]
        /\ \E a \in ArgsOf(o) : arg' = [arg EXCEPT ![t] = a]
        /\ pc' = [pc EXCEPT ![t] = FirstPc(o)]
    /\ pre' = [pre EXCEPT ![t] = registry_]
    /\ UNCHANGED <<registry_, next_id_, k, l, it, err, ret, stable, issued, ever, removed, hist>>

\* the end of the operation's scope: the lock object's destructor unlocks,
\* then the value or the exception reaches the caller
Release(t) ==
    /\ pc[t] = "unlock"
    /\ mutex_' = [writer |-> IF mutex_.writer = t THEN NoThread ELSE mutex_.writer,
                  readers |-> mutex_.readers \ {t}]
    /\ stable' = IF op[t] \in Mutating THEN registry_ ELSE stable
    /\ issued' = IF op[t] = "create" /\ err[t] = NoErr THEN Append(issued, ret[t].id) ELSE issued
    /\ pc' = [pc EXCEPT ![t] = "idle"]
    /\ op' = [op EXCEPT ![t] = "none"]
    /\ arg' = [arg EXCEPT ![t] = NoArg]
    /\ k' = [k EXCEPT ![t] = 0]
    /\ l' = [l EXCEPT ![t] = NoLine]
    /\ it' = [it EXCEPT ![t] = NoIt]
    /\ err' = [err EXCEPT ![t] = NoErr]
    /\ ret' = [ret EXCEPT ![t] = NoRet]
    /\ pre' = [pre EXCEPT ![t] = NoPre]
    /\ hist' = [hist EXCEPT ![t] = << >>]
    /\ UNCHANGED <<registry_, next_id_, ever, removed>>

\* a throw that leaves the operation with the lock still held
Throw_KeepLock(t, e) ==
    /\ err' = [err EXCEPT ![t] = e]
    /\ pc' = [pc EXCEPT ![t] = "idle"]

\* throw e: the stack unwinds to the end of the operation's scope
Throw(t, e) ==
    /\ err' = [err EXCEPT ![t] = e]
    /\ pc' = [pc EXCEPT ![t] = "unlock"]

\* ---------------------------------------------------------------- create
\* id = next_id_ with no increment
NextId_NoIncrement(t) ==
    /\ it' = [it EXCEPT ![t] = next_id_]
    /\ next_id_' = next_id_

\* id = the smallest handle that is not in use
NextId_Reuse(t) ==
    /\ it' = [it EXCEPT ![t] = CHOOSE h \in 1..next_id_ :
                                  h \notin Live /\ \A g \in 1..(h - 1) : g \in Live]
    /\ next_id_' = next_id_ + 1

\* uint64_t id = next_id_++;
NextId(t) ==
    /\ it' = [it EXCEPT ![t] = next_id_]
    /\ next_id_' = next_id_ + 1

CreateId(t) ==
    /\ pc[t] = "create_id"
    /\ NextId(t)
    /\ pc' = [pc EXCEPT ![t] = "create_insert"]
    /\ UNCHANGED <<registry_, mutex_, op, arg, k, l, err, ret, pre, stable, issued, ever, removed, hist>>

\* registry_[id] = std::make_unique<graph::AdjMat>(size)
Insert(reg, id, mat) == [h \in (DOMAIN reg) \cup {id} |-> IF h = id THEN mat ELSE reg[h]]

\* registry_[id] = ...; return id;
CreateInsert(t) ==
    /\ pc[t] = "create_insert"
    /\ registry_' = Insert(registry_, it[t], AdjMat(arg[t].size))
    /\ ever' = ever \cup {it[t]}
    /\ ret' = [ret EXCEPT ![t] = [id |-> it[t]]]
    /\ pc' = [pc EXCEPT ![t] = "unlock"]
    /\ UNCHANGED <<next_id_, mutex_, op, arg, k, l, it, err, pre, stable, issued, removed, hist>>

\* ------------------------------------------------------- set and bash_set
\* auto it = registry_.find(id); if (it == registry_.end()) throw ...
Find(t) ==
    /\ pc[t] = "find"
    /\ IF arg[t].id \in Live
       THEN /\ it' = [it EXCEPT ![t] = arg[t].id]
            /\ k' = [k EXCEPT ![t] = 1]
            /\ pc' = [pc EXCEPT ![t] = "line"]
            /\ err' = err
       ELSE /\ Throw(t, OORInvalidId)
            /\ UNCHANGED <<it, k>>
    /\ UNCHANGED <<registry_, next_id_, mutex_, op, arg, l, ret, pre, stable, issued, ever, removed, hist>>

\* a store that keeps the weight of a cell that already holds an edge
StoreAt_FirstWins(reg, h, i, j, w) ==
    IF h \in DOMAIN reg /\ reg[h].data_[Offset(reg[h], i, j)] = NO_EDGE
    THEN [reg EXCEPT ![h] = Store(reg[h], Offset(reg[h], i, j), w)]
    ELSE reg

\* the matrix behind a found entry; an entry erased in the meantime is a
\* dangling pointer, and a store through it does not reach any live matrix
StoreAt(reg, h, i, j, w) ==
    IF h \in DOMAIN reg
    THEN [reg EXCEPT ![h] = Store(reg[h], Offset(reg[h], i, j), w)]
    ELSE reg

\* a call that takes the bi_set branch whatever bi is
BiBranch_Always(flag) == TRUE

\* if (bi) it->second->bi_set(...) else it->second->set(...)
BiBranch(flag) == flag

\* one round of the loop "for (const auto &l: lines)" (set has one line):
\* bi_set(l.u, l.v, l.weight) or set(l.u, l.v, l.weight) up to and with the
\* store data_[i * n_ + j] = w
Line(t) ==
    /\ pc[t] = "line"
    /\ IF k[t] > arg[t].len
       THEN /\ pc' = [pc EXCEPT ![t] = "unlock"]
            /\ UNCHANGED <<registry_, k, l, err, hist>>
       ELSE \E ln \in line :
            LET e == IF it[t] \in Live THEN WriteCheck(registry_[it[t]], ln.u, ln.v) ELSE NoErr
            IN /\ l' = [l EXCEPT ![t] = ln]
               /\ hist' = [hist EXCEPT ![t] = Append(@, ln)]
               /\ IF e # NoErr
                  THEN /\ Throw(t, e)
                       /\ UNCHANGED <<registry_, k>>
                  ELSE /\ registry_' = StoreAt(registry_, it[t], ln.u, ln.v, ln.weight)
                       /\ IF BiBranch(arg[t].flag)
                          THEN /\ pc' = [pc EXCEPT ![t] = "bi_second"]
                               /\ k' = k
                          ELSE /\ pc' = pc
                               /\ k' = [k EXCEPT ![t] = @ + 1]
                       /\ err' = err
    /\ UNCHANGED <<next_id_, mutex_, op, arg, it, ret, pre, stable, issued, ever, removed>>

\* a second store to the cell of the first one
bi_set_second_Same(reg, h, ln) == StoreAt(reg, h, ln.u, ln.v, ln.weight)

\* data_[j * n_ + i] = w
bi_set_second(reg, h, ln) == StoreAt(reg, h, ln.v, ln.u, ln.weight)

\* the second store of bi_set
BiSecond(t) ==
    /\ pc[t] = "bi_second"
    /\ registry_' = bi_set_second(registry_, it[t], l[t])
    /\ k' = [k EXCEPT ![t] = @ + 1]
    /\ pc' = [pc EXCEPT ![t] = "line"]
    /\ UNCHANGED <<next_id_, mutex_, op, arg, l, it, err, ret, pre, stable, issued, ever, removed, hist>>

\* ------------------------------------------------------ destroy and atexit
\* an erase that removes every entry
Erase_All(reg, id) == [h \in {} |-> reg[h]]

\* registry_.erase(id)
Erase(reg, id) == [h \in (DOMAIN reg) \ {id} |-> reg[h]]

\* return registry_.erase(id) > 0;
Destroy(t) ==
    /\ pc[t] = "erase"
    /\ pc' = [pc EXCEPT ![t] = "unlock"]
    /\ ret' = [ret EXCEPT ![t] = [erased |-> (arg[t].id \in Live)]]
    /\ registry_' = Erase(registry_, arg[t].id)
    /\ removed' = removed \cup ({arg[t].id} \cap Live)
    /\ UNCHANGED <<next_id_, mutex_, op, arg, k, l, it, err, pre, stable, issued, ever, hist>>

\* registry_.clear();
AtExit(t) ==
    /\ pc[t] = "clear"
    /\ registry_' = EmptyRegistry
    /\ removed' = removed \cup Live
    /\ pc' = [pc EXCEPT ![t] = "unlock"]
    /\ UNCHANGED <<next_id_, mutex_, op, arg, k, l, it, err, ret, pre, stable, issued, ever, hist>>

\* ------------------------------------------------------------------ queries
\* return registry_.contains(id);
Exists(t) ==
    /\ pc[t] = "contains"
    /\ pc' = [pc EXCEPT ![t] = "unlock"]
    /\ ret' = [ret EXCEPT ![t] = [contains |-> (arg[t].id \in Live)]]
    /\ UNCHANGED <<registry_, next_id_, mutex_, op, arg, k, l, it, err, pre, stable, issued, ever, removed, hist>>

\* a vector that holds every id twice
list_ids_Twice(reg) ==
    {[i \in 1..(2 * Cardinality(DOMAIN reg)) |->
         s[((i - 1) % Cardinality(DOMAIN reg)) + 1]] :
       s \in {f \in [1..Cardinality(DOMAIN reg) -> DOMAIN reg] :
                 \A a, b \in DOMAIN f : a # b => f[a] # f[b]}}

\* ids.reserve(registry_.size()); for (const auto &[id, _]: registry_)
\* ids.push_back(id): the vectors that hold every key once, in one of the
\* orders the unordered_map may iterate in
list_ids(reg) ==
    {f \in [1..Cardinality(DOMAIN reg) -> DOMAIN reg] :
        \A a, b \in DOMAIN f : a # b => f[a] # f[b]}

\* return the vector of the ids of all entries
ListIds(t) ==
    /\ pc[t] = "list"
    /\ pc' = [pc EXCEPT ![t] = "unlock"]
    /\ \E ids \in list_ids(registry_) : ret' = [ret EXCEPT ![t] = [ids |-> ids]]
    /\ UNCHANGED <<registry_, next_id_, mutex_, op, arg, k, l, it, err, pre, stable, issued, ever, removed, hist>>

\* get_graph(id): the pointer to the matrix, or throw
GetGraph(t) ==
    /\ pc[t] = "get_graph"
    /\ IF arg[t].id \in Live
       THEN /\ it' = [it EXCEPT ![t] = arg[t].id]
            /\ pc' = [pc EXCEPT ![t] = "algo"]
            /\ err' = err
       ELSE /\ Throw(t, OORNotFound)
            /\ it' = it
    /\ UNCHANGED <<registry_, next_id_, mutex_, op, arg, k, l, ret, pre, stable, issued, ever, removed, hist>>

\* what a read through the pointer p sees: the matrix, or, when the entry
\* was erased in the meantime, whatever the freed memory holds
Pointee(p) ==
    IF p \in Live THEN {registry_[p]} ELSE {AdjMat(s) : s \in Sizes}

\* std::count_if over row node: the non-zero cells of the row
OutDeg(mat, node) ==
    Cardinality({j \in 0..(mat.n_ - 1) : mat.data_[node * mat.n_ + j] # NO_EDGE})

\* an in-degree loop that reads data[node * n + i]
InDeg_Row(mat, node) ==
    Cardinality({i \in 0..(mat.n_ - 1) : i # node /\ mat.data_[node * mat.n_ + i] # NO_EDGE})

\* the loop over column node, the row i == node skipped
InDeg(mat, node) ==
    Cardinality({i \in 0..(mat.n_ - 1) : i # node /\ mat.data_[i * mat.n_ + node] # NO_EDGE})

\* what get_degree returns on the matrix mat
get_degree(mat, node, directed) ==
    [out |-> OutDeg(mat, node),
     in |-> IF directed THEN InDeg(mat, node) ELSE OutDeg(mat, node)]

Computed == [computed |-> TRUE]

\* the algorithm called on *get_graph(id): its check of the node index,
\* then its reads of the matrix; get_degree counts the row here and the
\* column in its next step
Algo(t) ==
    /\ pc[t] = "algo"
    /\ \E mat \in Pointee(it[t]) :
       \E nd \in (IF op[t] \in Indexed THEN Indices ELSE {0}) :
         /\ arg' = [arg EXCEPT ![t].node = nd]
         /\ IF op[t] \in Indexed /\ nd >= mat.n_
            THEN /\ Throw(t, OORNode)
                 /\ ret' = ret
            ELSE IF op[t] = "get_degree"
            THEN /\ pc' = [pc EXCEPT ![t] = "in_deg"]
                 /\ ret' = [ret EXCEPT ![t] = [out |-> OutDeg(mat, nd), in |-> 0]]
                 /\ err' = err
            ELSE /\ pc' = [pc EXCEPT ![t] = "unlock"]
                 /\ ret' = [ret EXCEPT ![t] = Computed]
                 /\ err' = err
    /\ UNCHANGED <<registry_, next_id_, mutex_, op, k, l, it, pre, stable, issued, ever, removed, hist>>

\* get_degree, second half: in_deg is the column count when directed,
\* out_deg otherwise (a column scan of freed memory that no longer holds
\* the row node yields the row count)
GetDegreeIn(t) ==
    /\ pc[t] = "in_deg"
    /\ pc' = [pc EXCEPT ![t] = "unlock"]
    /\ \E mat \in Pointee(it[t]) :
       \E directed \in BOOLEAN :
         /\ arg' = [arg EXCEPT ![t].flag = directed]
         /\ ret' = [ret EXCEPT ![t].in =
                       IF directed /\ arg[t].node < mat.n_
                       THEN InDeg(mat, arg[t].node)
                       ELSE ret[t].out]
    /\ UNCHANGED <<registry_, next_id_, mutex_, op, k, l, it, err, pre, stable, issued, ever, removed, hist>>

\* ------------------------------------------------------------ specification
Next ==
    \E t \in Threads :
        \/ Acquire(t)
        \/ Release(t)
        \/ CreateId(t)
        \/ CreateInsert(t)
        \/ Find(t)
        \/ Line(t)
        \/ BiSecond(t)
        \/ Destroy(t)
        \/ AtExit(t)
        \/ Exists(t)
        \/ ListIds(t)
        \/ GetGraph(t)
        \/ Algo(t)
        \/ GetDegreeIn(t)

Spec == Init /\ [][Next]_vars

\* ------------------------------------------- specification with blocked calls
\* the thread holds the mutex, exclusively or shared
Holds(t) == mutex_.writer = t \/ t \in mutex_.readers

\* the create calls that have not taken their id yet
PendingCreates == {u \in Threads : op[u] = "create" /\ pc[u] \in {"lock", "create_id"}}

\* a thread calls an operation o of the registry and reaches the
\* constructor of the operation's lock object (calls of create are capped)
Call(t) ==
    /\ pc[t] = "idle"
    /\ \E o \in Ops :
        /\ o = "create" => next_id_ + Cardinality(PendingCreates) <= MaxLiveCreates
        /\ op' = [op EXCEPT ![t] = o]
    /\ pc' = [pc EXCEPT ![t] = "lock"]
    /\ UNCHANGED <<registry_, next_id_, mutex_, arg, k, l, it, err, ret, pre, stable, issued, ever, removed, hist>>

\* the constructor of std::lock_guard / std::unique_lock (mutating
\* operations) or std::shared_lock (queries) returns: the thread was
\* blocked in it until the mutex could be taken
Lock(t) ==
    /\ pc[t] = "lock"
    /\ IF Exclusive(op[t])
       THEN /\ CanLock
            /\ mutex_' = [mutex_ EXCEPT !.writer = t]
       ELSE /\ CanLockShared
            /\ mutex_' = [mutex_ EXCEPT !.readers = @ \cup {t}]
    /\ \E a \in ArgsOf(op[t]) : arg' = [arg EXCEPT ![t] = a]
    /\ pc' = [pc EXCEPT ![t] = FirstPc(op[t])]
    /\ pre' = [pre EXCEPT ![t] = registry_]
    /\ UNCHANGED <<registry_, next_id_, op, k, l, it, err, ret, stable, issued, ever, removed, hist>>

\* a step of the thread inside its operation, up to the unlock
Inside(t) ==
    \/ Release(t)
    \/ CreateId(t)
    \/ CreateInsert(t)
    \/ Find(t)
    \/ Line(t)
    \/ BiSecond(t)
    \/ Destroy(t)
    \/ AtExit(t)
    \/ Exists(t)
    \/ ListIds(t)
    \/ GetGraph(t)
    \/ Algo(t)
    \/ GetDegreeIn(t)

LiveNext ==
    \E t \in Threads :
        \/ Call(t)
        \/ Lock(t)
        \/ Inside(t)

\* the scheduler is fair to a thread that can run, and the mutex is fair to
\* a thread that waits for it: a waiter that can take the mutex again and
\* again does take it
LiveSpec ==
    /\ Init
    /\ [][LiveNext]_vars
    /\ \A t \in Threads : WF_vars(Inside(t)) /\ SF_vars(Lock(t))

\* --------------------------------------------------------------- algorithms
\* std::numeric_limits<int32_t>::max()
INF == 2147483647

\* BFS follows the cell (v, u)
BfsEdge_Reversed(mat, u, v) == Read(mat, v, u) # NO_EDGE

\* mat(u, v) != NO_EDGE
BfsEdge(mat, u, v) == Read(mat, u, v) # NO_EDGE

\* BFS, the loop "for (uint32_t v = 0; v < n; ++v)" from v on, for the
\* popped node u; st is [dist, q]
RECURSIVE BfsRow(_, _, _, _)
BfsRow(mat, u, v, st) ==
    IF v >= mat.n_ THEN st
    ELSE BfsRow(mat, u, v + 1,
                IF u = v THEN st
                ELSE IF BfsEdge(mat, u, v) /\ st.dist[v] = INF
                THEN [dist |-> [st.dist EXCEPT ![v] = st.dist[u] + 1],
                      q |-> Append(st.q, v)]
                ELSE st)

\* BFS, the loop "while (!q.empty())"
RECURSIVE BfsLoop(_, _)
BfsLoop(mat, st) ==
    IF st.q = << >> THEN st.dist
    ELSE BfsLoop(mat, BfsRow(mat, Head(st.q), 0, [st EXCEPT !.q = Tail(@)]))

\* a Dijkstra that adds 1 for every edge
Alt_Unit(dist, u, w) == dist[u] + 1

\* int32_t alt = dist[u] + mat(u, v)
Alt(dist, u, w) == dist[u] + w

\* a Dijkstra that skips no cell
EdgeAbsent_Never(mat, u, v) == FALSE

\* mat(u, v) == NO_EDGE
EdgeAbsent(mat, u, v) == Read(mat, u, v) = NO_EDGE

\* std::greater<> on pair<int32_t, uint32_t>: a is not after b in the queue
NodeLeq(a, b) == a[1] < b[1] \/ (a[1] = b[1] /\ a[2] <= b[2])

\* the position of pq.top() in the content of the priority queue
Top(pq) == CHOOSE i \in DOMAIN pq : \A j \in DOMAIN pq : NodeLeq(pq[i], pq[j])

\* pq.pop(): the content without the entry at position i
Pop(pq, i) == [j \in 1..(Len(pq) - 1) |-> IF j < i THEN pq[j] ELSE pq[j + 1]]

\* Dijkstra, the loop over v from v on, for the popped node u; st is [dist, pq]
RECURSIVE DijkstraRow(_, _, _, _)
DijkstraRow(mat, u, v, st) ==
    IF v >= mat.n_ THEN st
    ELSE DijkstraRow(mat, u, v + 1,
                IF u = v THEN st
                ELSE IF EdgeAbsent(mat, u, v) THEN st
                ELSE LET alt == Alt(st.dist, u, Read(mat, u, v))
                     IN IF alt < st.dist[v]
                        THEN [dist |-> [st.dist EXCEPT ![v] = alt],
                              pq |-> Append(st.pq, <<alt, v>>)]
                        ELSE st)

\* Dijkstra, the loop "while (!pq.empty())": a popped entry whose distance
\* is larger than dist[u] is dropped
RECURSIVE DijkstraLoop(_, _)
DijkstraLoop(mat, st) ==
    IF st.pq = << >> THEN st.dist
    ELSE LET i == Top(st.pq)
             d == st.pq[i][1]
             u == st.pq[i][2]
             rest == [st EXCEPT !.pq = Pop(@, i)]
         IN IF d > st.dist[u] THEN DijkstraLoop(mat, rest)
            ELSE DijkstraLoop(mat, DijkstraRow(mat, u, 0, rest))

\* vector<int32_t> dist(n, INF); dist[start] = 0;
SeedDist(mat, start) == [v \in 0..(mat.n_ - 1) |-> IF v = start THEN 0 ELSE INF]

\* shortest_path(mat, start, weighed) for start < n: the vector dist, as a
\* function on 0..n-1
shortest_path(mat, start, weighed) ==
    IF ~weighed
    THEN BfsLoop(mat, [dist |-> SeedDist(mat, start), q |-> <<start>>])
    ELSE DijkstraLoop(mat, [dist |-> SeedDist(mat, start), pq |-> <<<<0, start>>>>])

\* count += ... over the rounds of a loop: the sum of the sequence s
RECURSIVE Sum(_)
Sum(s) == IF DOMAIN s = {} THEN 0 ELSE Head(s) + Sum(Tail(s))

\* the undirected count_if that starts at k = 0
TriCount_FromZero(mat, i, j) ==
    Cardinality({kk \in 0..(mat.n_ - 1) :
        mat.data_[i * mat.n_ + kk] # NO_EDGE /\ mat.data_[j * mat.n_ + kk] # NO_EDGE})

\* std::count_if(row_j + k, row_j + n, ...) with k = j + 1: the k > j with
\* row_i[k] != NO_EDGE && row_j[k] != NO_EDGE
TriCount(mat, i, j) ==
    Cardinality({kk \in (j + 1)..(mat.n_ - 1) :
        mat.data_[i * mat.n_ + kk] # NO_EDGE /\ mat.data_[j * mat.n_ + kk] # NO_EDGE})

\* *ColIter(data, n, c, x) at row i: NO_EDGE for the excluded row
ColIter(mat, c, x, i) == IF i = x THEN NO_EDGE ELSE mat.data_[i * mat.n_ + c]

\* a directed count_if that reads row i where the code reads column i
TriCountDirected_Row(mat, i, j) ==
    Cardinality({kk \in 0..(mat.n_ - 1) :
        /\ kk # i /\ kk # j
        /\ mat.data_[j * mat.n_ + kk] # NO_EDGE /\ mat.data_[i * mat.n_ + kk] # NO_EDGE})

\* the directed count_if: the k other than i and j with
\* row_j[k] != NO_EDGE && v_k_i != NO_EDGE
TriCountDirected(mat, i, j) ==
    Cardinality({kk \in 0..(mat.n_ - 1) :
        /\ kk # i /\ kk # j
        /\ mat.data_[j * mat.n_ + kk] # NO_EDGE /\ ColIter(mat, i, i, kk) # NO_EDGE})

\* the directed branch before "count /= 3": count after the two loops
\* over i and j
DirectedRaw(mat) ==
    Sum([a \in 1..mat.n_ |->
       Sum([b \in 1..mat.n_ |->
          LET i == a - 1
              j == b - 1
          IN IF i = j THEN 0
             ELSE IF Read(mat, i, j) = NO_EDGE THEN 0
             ELSE TriCountDirected(mat, i, j)])])

\* count_triangles(mat, directed)
count_triangles(mat, directed) ==
    IF ~directed
    THEN Sum([a \in 1..mat.n_ |->
            Sum([b \in 1..mat.n_ |->
               LET i == a - 1
                   j == b - 1
               IN IF j < i + 1 THEN 0
                  ELSE IF Read(mat, i, j) = NO_EDGE THEN 0
                  ELSE TriCount(mat, i, j)])])
    ELSE DirectedRaw(mat) \div 3

\* std::none_of over row i: the row has no non-zero cell
NoOut(mat, i) == \A j \in 0..(mat.n_ - 1) : mat.data_[i * mat.n_ + j] = NO_EDGE

\* a step 2 that keeps every candidate
NoIn_Always(mat, i) == TRUE

\* std::none_of over ColIter(data, n, i, i): column i has no non-zero cell,
\* the row i read as NO_EDGE
NoIn(mat, i) == \A r \in 0..(mat.n_ - 1) : ColIter(mat, i, i, r) = NO_EDGE

\* step 1, the loop from i on: the nodes with no outbound edge, ascending
RECURSIVE Candidates(_, _)
Candidates(mat, i) ==
    IF i >= mat.n_ THEN << >>
    ELSE (IF NoOut(mat, i) THEN <<i>> ELSE << >>) \o Candidates(mat, i + 1)

\* step 2, the loop over the candidates c: those with no inbound edge
RECURSIVE KeepNoIn(_, _)
KeepNoIn(mat, c) ==
    IF c = << >> THEN << >>
    ELSE (IF NoIn(mat, Head(c)) THEN <<Head(c)>> ELSE << >>) \o KeepNoIn(mat, Tail(c))

\* isolated_nodes(mat, directed)
isolated_nodes(mat, directed) ==
    IF ~directed THEN Candidates(mat, 0) ELSE KeepNoIn(mat, Candidates(mat, 0))

\* the double a / b of two converted uint32_t values, kept as the pair: the
\* quotient is the double nearest to the rational a / b, and b = 0 stands
\* for the NaN (a = 0) or the infinity (a > 0) of a division by 0.0
Frac(a, b) == [num |-> a, den |-> b]

\* the loop that fills degrees: the std::count_if of every row
Degrees(mat) == [a \in 1..mat.n_ |-> OutDeg(mat, a - 1)]

\* std::min_element and std::max_element on a non-empty vector: the
\* position of the first smallest and of the first largest element
min_element(s) ==
    CHOOSE x \in DOMAIN s : \A y \in DOMAIN s : s[x] < s[y] \/ (s[x] = s[y] /\ x <= y)
max_element(s) ==
    CHOOSE x \in DOMAIN s : \A y \in DOMAIN s : s[x] > s[y] \/ (s[x] = s[y] /\ x <= y)

\* an edge count that is not halved
EdgeCount_NoHalf(total, directed) == total

\* uint32_t edge_count = directed ? total : total / 2;
EdgeCount(total, directed) == IF directed THEN total ELSE total \div 2

\* directed ? (n * (n - 1)) : (n * (n - 1) / 2) in uint32_t; for n = 0 the
\* factor n - 1 wraps to 2^32 - 1 and the product is 0
Pairs(n, directed) == IF directed THEN n * (n - 1) ELSE (n * (n - 1)) \div 2

\* what a read through the end iterator of the empty vector may yield
Garbage == 0..MaxGarbage

\* the process stops at an invalid read
Fault == [type |-> "fault", what |-> "invalid memory access"]

\* degree_stats(mat, directed): the outcomes [err, val]. On n = 0
\* *std::min_element and *std::max_element read through end() of an empty
\* vector: the read faults or yields some value
degree_stats(mat, directed) ==
    LET n == mat.n_
        degrees == Degrees(mat)
        total == Sum(degrees)
        stats(mn, mx) == [avg |-> Frac(total, n), min_deg |-> mn, max_deg |-> mx,
                          edge_density |-> Frac(EdgeCount(total, directed), Pairs(n, directed))]
    IN IF n = 0
       THEN {[err |-> Fault, val |-> NoRet]}
            \cup {[err |-> NoErr, val |-> stats(a, b)] : a, b \in Garbage}
       ELSE {[err |-> NoErr,
              val |-> stats(degrees[min_element(degrees)], degrees[max_element(degrees)])]}

\* get_from, the loop from j on: the j != node with row[j] != NO_EDGE
RECURSIVE FromLoop(_, _, _)
FromLoop(mat, node, j) ==
    IF j >= mat.n_ THEN << >>
    ELSE (IF j = node THEN << >>
          ELSE IF mat.data_[node * mat.n_ + j] = NO_EDGE THEN << >>
          ELSE <<j>>) \o FromLoop(mat, node, j + 1)

\* get_from(mat, node) for node < n
get_from(mat, node) == FromLoop(mat, node, 0)

\* get_to, the loop from i on: the i != node with data[i * n + node] != NO_EDGE
RECURSIVE ToLoop(_, _, _)
ToLoop(mat, node, i) ==
    IF i >= mat.n_ THEN << >>
    ELSE (IF i = node THEN << >>
          ELSE IF mat.data_[i * mat.n_ + node] = NO_EDGE THEN << >>
          ELSE <<i>>) \o ToLoop(mat, node, i + 1)

\* a get_to that reads data[node * n + i]
get_to_Transposed(mat, node) == FromLoop(mat, node, 0)

\* get_to(mat, node) for node < n
get_to(mat, node) == ToLoop(mat, node, 0)

\* a get_neighbours that tests both cells whatever bi is
NeighbourSkip_Both(mat, node, bi, i) ==
    mat.data_[node * mat.n_ + i] = NO_EDGE /\ mat.data_[i * mat.n_ + node] = NO_EDGE

\* get_neighbours, the test that skips i: row[i] == NO_EDGE when bi, and
\* row[i] == NO_EDGE && data[i * n + node] == NO_EDGE otherwise
NeighbourSkip(mat, node, bi, i) ==
    IF bi THEN mat.data_[node * mat.n_ + i] = NO_EDGE
    ELSE mat.data_[node * mat.n_ + i] = NO_EDGE /\ mat.data_[i * mat.n_ + node] = NO_EDGE

\* get_neighbours, the loop from i on
RECURSIVE NeighboursLoop(_, _, _, _)
NeighboursLoop(mat, node, bi, i) ==
    IF i >= mat.n_ THEN << >>
    ELSE (IF i = node THEN << >>
          ELSE IF NeighbourSkip(mat, node, bi, i) THEN << >>
          ELSE <<i>>) \o NeighboursLoop(mat, node, bi, i + 1)

\* get_neighbours(mat, node, bi) for node < n
get_neighbours(mat, node, bi) == NeighboursLoop(mat, node, bi, 0)

\* the arithmetic of double on the quotients of small integers, computed
\* exactly: the greatest common divisor, the reduced pair, +, *
RECURSIVE GCD(_, _)
GCD(a, b) == IF b = 0 THEN a ELSE GCD(b, a % b)
Norm(q) == [num |-> q.num \div GCD(q.num, q.den), den |-> q.den \div GCD(q.num, q.den)]
QAdd(p, q) == Norm(Frac(p.num * q.den + q.num * p.den, p.den * q.den))
QMul(p, q) == Norm(Frac(p.num * q.num, p.den * q.den))

\* betweenness_centrality, the state of one source s before the
\* traversal: dist, preds, sigma, stack
BcSeed(mat, s) ==
    [dist |-> SeedDist(mat, s),
     preds |-> [v \in 0..(mat.n_ - 1) |-> << >>],
     sigma |-> [v \in 0..(mat.n_ - 1) |-> IF v = s THEN 1 ELSE 0],
     stack |-> << >>]

\* the BFS branch, the loop over w from w on, for the popped node v
RECURSIVE BcBfsRow(_, _, _, _)
BcBfsRow(mat, v, w, st) ==
    IF w >= mat.n_ THEN st
    ELSE BcBfsRow(mat, v, w + 1,
           IF v = w THEN st
           ELSE IF Read(mat, v, w) = NO_EDGE THEN st
           ELSE LET st1 == IF st.dist[w] = INF
                           THEN [st EXCEPT !.dist[w] = st.dist[v] + 1, !.q = Append(@, w)]
                           ELSE st
                IN IF st1.dist[w] = st1.dist[v] + 1
                   THEN [st1 EXCEPT !.sigma[w] = @ + st1.sigma[v],
                                    !.preds[w] = Append(@, v)]
                   ELSE st1)

\* the BFS branch, the loop "while (!q.empty())"
RECURSIVE BcBfsLoop(_, _)
BcBfsLoop(mat, st) ==
    IF st.q = << >> THEN st
    ELSE BcBfsLoop(mat, BcBfsRow(mat, Head(st.q), 0,
                       [st EXCEPT !.q = Tail(@), !.stack = Append(@, Head(st.q))]))

\* the Dijkstra branch, the loop over w from w on, for the popped node v
RECURSIVE BcDijkstraRow(_, _, _, _)
BcDijkstraRow(mat, v, w, st) ==
    IF w >= mat.n_ THEN st
    ELSE BcDijkstraRow(mat, v, w + 1,
           IF v = w THEN st
           ELSE IF Read(mat, v, w) = NO_EDGE THEN st
           ELSE LET alt == st.dist[v] + Read(mat, v, w)
                IN IF alt < st.dist[w]
                   THEN [st EXCEPT !.dist[w] = alt, !.pq = Append(@, <<alt, w>>),
                                   !.sigma[w] = st.sigma[v], !.preds[w] = <<v>>]
                   ELSE IF alt = st.dist[w]
                   THEN [st EXCEPT !.sigma[w] = @ + st.sigma[v],
                                   !.preds[w] = Append(@, v)]
                   ELSE st)

\* the Dijkstra branch, the loop "while (!pq.empty())"
RECURSIVE BcDijkstraLoop(_, _)
BcDijkstraLoop(mat, st) ==
    IF st.pq = << >> THEN st
    ELSE LET i == Top(st.pq)
             d == st.pq[i][1]
             v == st.pq[i][2]
             rest == [st EXCEPT !.pq = Pop(@, i)]
         IN IF d > st.dist[v] THEN BcDijkstraLoop(mat, rest)
            ELSE BcDijkstraLoop(mat, BcDijkstraRow(mat, v, 0,
                                       [rest EXCEPT !.stack = Append(@, v)]))

\* the traversal from the source s
BcTraverse(mat, s, weighed) ==
    IF ~weighed
    THEN BcBfsLoop(mat, [dist |-> BcSeed(mat, s).dist, preds |-> BcSeed(mat, s).preds,
                         sigma |-> BcSeed(mat, s).sigma, stack |-> << >>, q |-> <<s>>])
    ELSE BcDijkstraLoop(mat, [dist |-> BcSeed(mat, s).dist, preds |-> BcSeed(mat, s).preds,
                              sigma |-> BcSeed(mat, s).sigma, stack |-> << >>,
                              pq |-> <<<<0, s>>>>])

\* for (uint32_t v: preds[w]) delta[v] += (sigma[v] / sigma[w]) * (1.0 + delta[w]),
\* from the i-th predecessor on
RECURSIVE BcPredLoop(_, _, _, _, _)
BcPredLoop(ps, w, sigma, delta, i) ==
    IF i > Len(ps) THEN delta
    ELSE BcPredLoop(ps, w, sigma,
            [delta EXCEPT ![ps[i]] =
                QAdd(@, QMul(Frac(sigma[ps[i]], sigma[w]), QAdd(Frac(1, 1), delta[w])))],
            i + 1)

\* the loop "while (!stack.empty())": the top of the stack is the last
\* node pushed
RECURSIVE BcUnwind(_, _, _, _, _)
BcUnwind(st, stack, s, delta, centrality) ==
    IF stack = << >> THEN centrality
    ELSE LET w == stack[Len(stack)]
             d1 == BcPredLoop(st.preds[w], w, st.sigma, delta, 1)
         IN BcUnwind(st, SubSeq(stack, 1, Len(stack) - 1), s, d1,
                     IF w # s THEN [centrality EXCEPT ![w] = QAdd(@, d1[w])]
                     ELSE centrality)

\* the loop over the sources from s on
RECURSIVE BcSources(_, _, _, _)
BcSources(mat, weighed, s, centrality) ==
    IF s >= mat.n_ THEN centrality
    ELSE BcSources(mat, weighed, s + 1,
            BcUnwind(BcTraverse(mat, s, weighed), BcTraverse(mat, s, weighed).stack, s,
                     [v \in 0..(mat.n_ - 1) |-> Frac(0, 1)], centrality))

\* a last loop that leaves the values as they are
BcHalve_Not(val) == val

\* val /= 2.0
BcHalve(val) == QMul(val, Frac(1, 2))

\* betweenness_centrality(mat, weighed): the vector centrality, as a
\* function on 0..n-1
betweenness_centrality(mat, weighed) ==
    LET c == BcSources(mat, weighed, 0, [v \in 0..(mat.n_ - 1) |-> Frac(0, 1)])
    IN [v \in 0..(mat.n_ - 1) |-> BcHalve(c[v])]

\* ------------------------------------- specification of the algorithm calls
\* the matrices given to the algorithms: every matrix of a size of AlgSizes
\* with weights of AlgWeights, and every matrix of a size of UnitSizes
\* with unit weights; the node queries also get the one-edge matrices of
\* size MaxScenarioNode + 1; betweenness_centrality gets every matrix of
\* a size of AlgSizes and every symmetric matrix of a size of UnitSizes,
\* with weights of BcWeights; a registry reaches each of them by create
\* and set
AlgSizes == 0..3
AlgWeights == 0..MaxAlgW
BcWeights == 0..MaxBcW
UnitSizes == {4}
\* the node indices given to an algorithm on a matrix of size n: every
\* node, and n, which is out of bounds
AlgNodes(n) == 0..n
AlgThread == "t1"
AlgOps == {"shortest_path", "count_triangles"}
QueryOps == {"get_degree", "isolated_nodes", "get_from", "get_to", "get_neighbours"}
BcOps == {"betweenness_centrality"}
\* the algorithms that take a flag (weighed / directed / bi)
Flagged == Algorithms \ {"get_from", "get_to"}

OffDiagonal(n) == {c \in 0..(Cells(n) - 1) : c \div n # c % n}

MatricesOf(n, W) ==
    {[n_ |-> n,
      data_ |-> [c \in 0..(Cells(n) - 1) |-> IF c \in OffDiagonal(n) THEN g[c] ELSE NO_EDGE]] :
        g \in [OffDiagonal(n) -> W]}

\* the cells above the diagonal, and the symmetric matrices of size n with
\* weights of W: what set calls with bi = true write
AboveDiagonal(n) == {c \in 0..(Cells(n) - 1) : c \div n < c % n}
SymMatricesOf(n, W) ==
    {[n_ |-> n,
      data_ |-> [c \in 0..(Cells(n) - 1) |->
                   IF c \div n < c % n THEN g[c]
                   ELSE IF c \div n > c % n THEN g[(c % n) * n + c \div n]
                   ELSE NO_EDGE]] :
        g \in [AboveDiagonal(n) -> W]}

\* the matrices of size n with one directed edge, of weight 1
OneEdgeMatrices(n) ==
    {[n_ |-> n, data_ |-> [c \in 0..(Cells(n) - 1) |-> IF c = e THEN 1 ELSE NO_EDGE]] :
        e \in OffDiagonal(n)}

\* the registry after create returned the handle 1 and set calls wrote the matrix
MatrixInit(mats) ==
    /\ registry_ \in {[h \in {1} |-> m] : m \in mats}
    /\ next_id_ = 2
    /\ mutex_ = [writer |-> NoThread, readers |-> {}]
    /\ pc = [t \in Threads |-> "idle"]
    /\ op = [t \in Threads |-> "none"]
    /\ arg = [t \in Threads |-> NoArg]
    /\ k = [t \in Threads |-> 0]
    /\ l = [t \in Threads |-> NoLine]
    /\ it = [t \in Threads |-> NoIt]
    /\ err = [t \in Threads |-> NoErr]
    /\ ret = [t \in Threads |-> NoRet]
    /\ pre = [t \in Threads |-> NoPre]
    /\ stable = registry_
    /\ issued = <<1>>
    /\ ever = {1}
    /\ removed = {}
    /\ hist = [t \in Threads |-> << >>]

AlgInit ==
    MatrixInit(UNION {MatricesOf(n, AlgWeights) : n \in AlgSizes}
                 \cup UNION {MatricesOf(n, {NO_EDGE, 1}) : n \in UnitSizes})

QueryInit ==
    MatrixInit(UNION {MatricesOf(n, AlgWeights) : n \in AlgSizes}
                 \cup UNION {MatricesOf(n, {NO_EDGE, 1}) : n \in UnitSizes}
                 \cup OneEdgeMatrices(MaxScenarioNode + 1))

BcInit ==
    MatrixInit(UNION {MatricesOf(n, BcWeights) : n \in AlgSizes}
                 \cup UNION {SymMatricesOf(n, BcWeights) : n \in UnitSizes})

\* what the algorithm o returns on mat
AlgValue(o, mat, node, flag) ==
    CASE o = "shortest_path" -> [dist |-> shortest_path(mat, node, flag)]
      [] o = "count_triangles" -> [count |-> count_triangles(mat, flag)]
      [] o = "get_degree" -> get_degree(mat, node, flag)
      [] o = "isolated_nodes" -> [nodes |-> isolated_nodes(mat, flag)]
      [] o = "get_from" -> [nodes |-> get_from(mat, node)]
      [] o = "get_to" -> [nodes |-> get_to(mat, node)]
      [] o = "get_neighbours" -> [nodes |-> get_neighbours(mat, node, flag)]
      [] o = "betweenness_centrality" -> [centrality |-> betweenness_centrality(mat, flag)]

\* a query of a live handle by one of the algorithms ops, from the
\* std::shared_lock to the return statement:
\* return algorithm(*get_graph(id), ...)
AlgCall(t, ops) ==
    /\ pc[t] = "idle"
    /\ CanLockShared
    /\ mutex_' = [mutex_ EXCEPT !.readers = @ \cup {t}]
    /\ pc' = [pc EXCEPT ![t] = "unlock"]
    /\ pre' = [pre EXCEPT ![t] = registry_]
    /\ \E o \in ops, id \in Live :
       \E flag \in (IF o \in Flagged THEN BOOLEAN ELSE {FALSE}),
          nd \in (IF o \in Indexed THEN AlgNodes(registry_[id].n_) ELSE {0}) :
          /\ op' = [op EXCEPT ![t] = o]
          /\ arg' = [arg EXCEPT ![t] = [NoArg EXCEPT !.id = id, !.node = nd, !.flag = flag]]
          /\ it' = [it EXCEPT ![t] = id]
          /\ IF o \in Indexed /\ nd >= registry_[id].n_
             THEN /\ err' = [err EXCEPT ![t] = OORNode]
                  /\ ret' = ret
             ELSE /\ ret' = [ret EXCEPT ![t] = AlgValue(o, registry_[id], nd, flag)]
                  /\ err' = err
    /\ UNCHANGED <<registry_, next_id_, k, l, stable, issued, ever, removed, hist>>

\* GraphManager::degree_stats on a live handle, from the std::shared_lock
\* to the return statement; a call that faults does not return
AlgDegreeStats(t) ==
    /\ pc[t] = "idle"
    /\ CanLockShared
    /\ mutex_' = [mutex_ EXCEPT !.readers = @ \cup {t}]
    /\ pre' = [pre EXCEPT ![t] = registry_]
    /\ \E id \in Live, flag \in BOOLEAN :
       \E o \in degree_stats(registry_[id], flag) :
          /\ pc' = [pc EXCEPT ![t] = IF o.err = NoErr THEN "unlock" ELSE "fault"]
          /\ op' = [op EXCEPT ![t] = "degree_stats"]
          /\ arg' = [arg EXCEPT ![t] = [NoArg EXCEPT !.id = id, !.flag = flag]]
          /\ it' = [it EXCEPT ![t] = id]
          /\ err' = [err EXCEPT ![t] = o.err]
          /\ ret' = [ret EXCEPT ![t] = o.val]
    /\ UNCHANGED <<registry_, next_id_, k, l, stable, issued, ever, removed, hist>>

AlgQuery(t) == AlgCall(t, AlgOps)
NodeQuery(t) == AlgCall(t, QueryOps)
BcQuery(t) == AlgCall(t, BcOps)

\* shortest_path and count_triangles
AlgNext ==
    \/ AlgQuery(AlgThread)
    \/ Release(AlgThread)

AlgSpec == AlgInit /\ [][AlgNext]_vars

\* the degree and node-list queries and degree_stats
QueryNext ==
    \/ NodeQuery(AlgThread)
    \/ AlgDegreeStats(AlgThread)
    \/ Release(AlgThread)

QuerySpec == QueryInit /\ [][QueryNext]_vars

\* betweenness_centrality
BcNext ==
    \/ BcQuery(AlgThread)
    \/ Release(AlgThread)

BcSpec == BcInit /\ [][BcNext]_vars

\* ------------------------------------------- 32-bit sizes and cell offsets
\* an unsigned number as its base-256 digits, least significant first:
\* the uint32_t x is the function U32(x) on 0..3
U32(x) == [d \in 0..3 |-> (x \div (256 ^ d)) % 256]

\* the digit sum of the column kk of the long multiplication of a by b
Column(a, b, kk) ==
    Sum([x \in 1..4 |-> IF (kk - (x - 1)) \in 0..3 THEN a[x - 1] * b[kk - (x - 1)] ELSE 0])

\* the digits kk..top of a * b, as a sequence; the carry out of the digit
\* top is dropped
RECURSIVE MulFrom(_, _, _, _, _)
MulFrom(a, b, kk, carry, top) ==
    IF kk > top THEN << >>
    ELSE <<(Column(a, b, kk) + carry) % 256>>
         \o MulFrom(a, b, kk + 1, (Column(a, b, kk) + carry) \div 256, top)

\* the digits kk..top of a + b, where a and b have the digits 0..top
RECURSIVE AddFrom(_, _, _, _, _)
AddFrom(a, b, kk, carry, top) ==
    IF kk > top THEN << >>
    ELSE <<(a[kk] + b[kk] + carry) % 256>>
         \o AddFrom(a, b, kk + 1, (a[kk] + b[kk] + carry) \div 256, top)

\* a * b and a + b in uint32_t: the low 32 bits of the result
U32Mul(a, b) == [d \in 0..3 |-> MulFrom(a, b, 0, 0, 3)[d + 1]]
U32Add(a, b) == [d \in 0..3 |-> AddFrom(a, b, 0, 0, 3)[d + 1]]

\* a < b for two numbers with the digits 0..3
U32Less(a, b) == \E d \in 0..3 : a[d] < b[d] /\ \A e \in (d + 1)..3 : a[e] = b[e]

\* AdjMat(n) with the buffer kept as its number of cells:
\* std::make_unique<uint16_t[]>(n * n), the product taken in uint32_t
WideAdjMat(n) == [n_ |-> n, cells_ |-> U32Mul(U32(n), U32(n))]

\* the offset i * n_ + j of data_[i * n_ + j], in uint32_t
WideOffset(mat, i, j) == U32Add(U32Mul(U32(i), U32(mat.n_)), U32(j))

\* the sizes given to create (uint32_t): small ones, the ones around 2^16,
\* and the largest int32_t; the indices given to set (line.u and line.v
\* are uint16_t): the smallest and the largest ones
WideSizes == {0, 1, 2, 65535, 65536, 65537, 2147483647}
WideIndices == {0, 1, 65534, 65535}

WideInit ==
    /\ registry_ = EmptyRegistry
    /\ next_id_ = 1
    /\ mutex_ = [writer |-> NoThread, readers |-> {}]
    /\ pc = [t \in Threads |-> "idle"]
    /\ op = [t \in Threads |-> "none"]
    /\ arg = [t \in Threads |-> NoArg]
    /\ k = [t \in Threads |-> 0]
    /\ l = [t \in Threads |-> NoLine]
    /\ it = [t \in Threads |-> NoIt]
    /\ err = [t \in Threads |-> NoErr]
    /\ ret = [t \in Threads |-> NoRet]
    /\ pre = [t \in Threads |-> NoPre]
    /\ stable = EmptyRegistry
    /\ issued = << >>
    /\ ever = {}
    /\ removed = {}
    /\ hist = [t \in Threads |-> << >>]

\* create(size), from the std::lock_guard to the return statement
WideCreate(t) ==
    /\ pc[t] = "idle"
    /\ CanLock
    /\ next_id_ <= MaxCreates
    /\ mutex_' = [mutex_ EXCEPT !.writer = t]
    /\ pc' = [pc EXCEPT ![t] = "unlock"]
    /\ op' = [op EXCEPT ![t] = "create"]
    /\ pre' = [pre EXCEPT ![t] = registry_]
    /\ \E size \in WideSizes :
          /\ arg' = [arg EXCEPT ![t] = [NoArg EXCEPT !.size = size]]
          /\ registry_' = Insert(registry_, next_id_, WideAdjMat(size))
    /\ next_id_' = next_id_ + 1
    /\ it' = [it EXCEPT ![t] = next_id_]
    /\ ever' = ever \cup {next_id_}
    /\ ret' = [ret EXCEPT ![t] = [id |-> next_id_]]
    /\ UNCHANGED <<k, l, err, stable, issued, removed, hist>>

\* set(id, (u, v, weight), bi = false) on a live handle, from the
\* std::lock_guard to the return: the checks of AdjMat::set, then the store
\* data_[i * n_ + j] = w. The content of the buffer is not kept; a store at
\* an offset outside the buffer is an invalid write, which faults or
\* changes memory that belongs to something else
WideSet(t) ==
    /\ pc[t] = "idle"
    /\ CanLock
    /\ mutex_' = [mutex_ EXCEPT !.writer = t]
    /\ op' = [op EXCEPT ![t] = "set"]
    /\ pre' = [pre EXCEPT ![t] = registry_]
    /\ \E id \in Live, u, v \in WideIndices :
          /\ arg' = [arg EXCEPT ![t] = [NoArg EXCEPT !.id = id, !.len = 1]]
          /\ it' = [it EXCEPT ![t] = id]
          /\ l' = [l EXCEPT ![t] = [u |-> u, v |-> v, weight |-> 1]]
          /\ IF WriteCheck(registry_[id], u, v) # NoErr
             THEN /\ err' = [err EXCEPT ![t] = WriteCheck(registry_[id], u, v)]
                  /\ pc' = [pc EXCEPT ![t] = "unlock"]
                  /\ ret' = ret
             ELSE /\ ret' = [ret EXCEPT ![t] = [offset |-> WideOffset(registry_[id], u, v)]]
                  /\ IF U32Less(WideOffset(registry_[id], u, v), registry_[id].cells_)
                     THEN /\ pc' = [pc EXCEPT ![t] = "unlock"]
                          /\ err' = err
                     ELSE \/ /\ pc' = [pc EXCEPT ![t] = "fault"]
                             /\ err' = [err EXCEPT ![t] = Fault]
                          \/ /\ pc' = [pc EXCEPT ![t] = "unlock"]
                             /\ err' = err
    /\ UNCHANGED <<registry_, next_id_, k, stable, issued, ever, removed, hist>>

WideNext ==
    \/ WideCreate(AlgThread)
    \/ WideSet(AlgThread)
    \/ Release(AlgThread)

WideSpec == WideInit /\ [][WideNext]_vars

\* ================================================================== claims
\* a thread is inside the critical section of its operation
InCS(t) == pc[t] # "idle"

\* a query's algorithm is between its lookup of the matrix and its return
Reading(t) == op[t] \in Algorithms /\ pc[t] \in {"algo", "in_deg", "unlock"} /\ it[t] # NoIt

C2_HandleLifecycle ==
    [][\A h \in Live \cup Live' \cup ever :
          /\ (h \notin Live /\ h \in Live') =>
                /\ h \notin ever
                /\ \E t \in Threads :
                      /\ op[t] = "create" /\ pc[t] = "create_insert" /\ pc'[t] = "unlock"
                      /\ ret'[t].id = h
          /\ (h \in Live /\ h \notin Live') =>
                \E t \in Threads :
                      /\ pc'[t] = "unlock"
                      /\ \/ op[t] = "destroy" /\ pc[t] = "erase" /\ arg[t].id = h
                         \/ op[t] = "atexit" /\ pc[t] = "clear"
          /\ (h \in ever /\ h \notin Live) => h \notin Live'
      ]_vars

\* a handle went absent -> live -> absent and a later create made a higher one live
C2_Witness ==
    \E h \in ever : h \notin Live /\ \E g \in Live : g > h

\* C3: while a mutating operation is inside its critical section, no other
\* operation of any kind is inside its own
C3_WritersExclude ==
    \A t, u \in Threads :
        (t # u /\ InCS(t) /\ op[t] \in Mutating) => ~InCS(u)

\* a mutating operation is in the middle of its critical section, after
\* other operations (a create, a first set) went through theirs
C3_Witness ==
    \E t \in Threads :
        /\ pc[t] = "bi_second" /\ op[t] = "bash_set" /\ k[t] = 2
        /\ \A u \in Threads \ {t} : ~InCS(u)

\* C4: no destroy and no atexit frees the matrix of a handle while a query
\* on that handle is between its lookup of the matrix and its return
C4_NoFreeWhileReading ==
    \A t \in Threads : Reading(t) => it[t] \in Live

\* two queries on the same live handle are inside their algorithms at once
\* while another handle has already been destroyed
C4_Witness ==
    \E t, u \in Threads :
        /\ t # u /\ Reading(t) /\ Reading(u)
        /\ it[t] = it[u] /\ pc[t] = "in_deg" /\ pc[u] = "algo"
        /\ ever # Live

\* C5: a query never observes a matrix on which a set(bi = true) or a
\* bash_set call is applied in part: the matrix it reads is the matrix as a
\* completed mutating call left it, and what get_degree returns is its
\* value on that matrix
C5_NoTornRead ==
    \A t \in Threads :
        Reading(t) =>
            /\ it[t] \in DOMAIN stable
            /\ it[t] \in Live => registry_[it[t]] = stable[it[t]]
            /\ (pc[t] = "unlock" /\ op[t] = "get_degree" /\ err[t] = NoErr) =>
                  ret[t] = get_degree(stable[it[t]], arg[t].node, arg[t].flag)

\* a directed get_degree returns out = in = 1 on a matrix that holds a
\* bi-directional edge
C5_Witness ==
    \E t \in Threads :
        /\ pc[t] = "unlock" /\ op[t] = "get_degree" /\ err[t] = NoErr
        /\ arg[t].flag /\ ret[t] = [out |-> 1, in |-> 1]
        /\ Read(registry_[it[t]], 0, 1) = Read(registry_[it[t]], 1, 0)

\* set or bash_set has read a line and is rejecting it
Rejecting(t) ==
    /\ pc[t] = "unlock" /\ op[t] \in {"set", "bash_set"}
    /\ it[t] # NoIt /\ k[t] <= arg[t].len /\ err[t] # NoErr

\* set or bash_set has just completed the write of the line l[t]
Written(t) ==
    /\ pc[t] \in {"line", "unlock"} /\ op[t] \in {"set", "bash_set"}
    /\ it[t] \in Live /\ k[t] > 1 /\ err[t] = NoErr

\* C6: no operation has side effects on failure: when an operation ends
\* with an error, the live handles and every cell of every live matrix are
\* as before the call (a bash_set rejected at its k-th edge leaves none of
\* its edges applied)
C6_NoEffectOnFailure ==
    \A t \in Threads :
        (pc[t] = "unlock" /\ err[t] # NoErr) => registry_ = pre[t]

\* C7: set, bash_set and every query fail with OutOfRange on a handle that
\* is not live, and every operation given an index >= n fails with
\* OutOfRange on a live handle; in both cases no matrix and no registry
\* entry is changed
C7_OutOfRangeNoChange ==
    \A t \in Threads :
        pc[t] = "unlock" =>
            /\ (op[t] \in {"set", "bash_set"} \cup Algorithms /\ arg[t].id \notin DOMAIN pre[t]) =>
                  /\ err[t].type = "std::out_of_range"
                  /\ registry_ = pre[t]
            /\ (op[t] \in {"set", "bash_set"} /\ it[t] \in Live /\ k[t] <= arg[t].len
                  /\ (l[t].u >= registry_[it[t]].n_ \/ l[t].v >= registry_[it[t]].n_)) =>
                  /\ err[t].type = "std::out_of_range"
                  /\ registry_ = pre[t]
            /\ (op[t] \in Indexed /\ it[t] \in Live /\ arg[t].node >= registry_[it[t]].n_) =>
                  /\ err[t].type = "std::out_of_range"
                  /\ registry_ = pre[t]

\* C8: immediately after a successful bi_set(i, j, w) on a live graph,
\* i # j, read(i, j) and read(j, i) both return w
C8_BiSetReadsBack ==
    \A t \in Threads :
        (Written(t) /\ arg[t].flag) =>
            /\ l[t].u # l[t].v
            /\ Read(registry_[it[t]], l[t].u, l[t].v) = l[t].weight
            /\ Read(registry_[it[t]], l[t].v, l[t].u) = l[t].weight

\* a bi_set has written a weight over two cells that held another value
C8_Witness ==
    \E t \in Threads :
        /\ Written(t) /\ arg[t].flag /\ pc[t] = "unlock"
        /\ Read(pre[t][it[t]], l[t].u, l[t].v) # l[t].weight
        /\ Read(pre[t][it[t]], l[t].v, l[t].u) # l[t].weight
        /\ Read(registry_[it[t]], l[t].v, l[t].u) = l[t].weight

\* C9: for every live graph of size n and every i < n, cell (i, i) reads 0
C9_DiagonalZero ==
    \A h \in Live :
        \A i \in 0..(registry_[h].n_ - 1) : Read(registry_[h], i, i) = 0

\* a write to the diagonal of a graph that holds an edge is being rejected
C9_Witness ==
    \E t \in Threads :
        /\ Rejecting(t) /\ it[t] \in Live
        /\ l[t].u = l[t].v /\ l[t].u < registry_[it[t]].n_
        /\ registry_[it[t]].n_ = 2
        /\ Read(registry_[it[t]], 0, 1) # NO_EDGE

\* C10: a write set(i, i, w) or bi_set(i, i, w) on a live graph, i < n,
\* fails with an error of a kind other than the kind thrown for an index
\* >= n or an absent handle
C10_DiagonalErrorKind ==
    \A t \in Threads :
        (pc[t] = "unlock" /\ op[t] \in {"set", "bash_set"} /\ it[t] \in Live
            /\ k[t] <= arg[t].len
            /\ l[t].u = l[t].v /\ l[t].u < registry_[it[t]].n_) =>
              /\ err[t] # NoErr
              /\ err[t].type \notin {OORIndex.type, OORInvalidId.type, OORNotFound.type, OORNode.type}

\* C11: once cell (i, j) of a live graph holds a non-zero weight, no step
\* of a set or bash_set call makes read(i, j) return the no-edge sentinel 0
\* again while the graph is live
C11_NoEdgeRemoval ==
    [][\A h \in Live \cap Live' :
          \A i, j \in 0..(registry_[h].n_ - 1) :
              Read(registry_[h], i, j) # NO_EDGE => Read(registry_'[h], i, j) # NO_EDGE
      ]_vars

\* C12: destroy(h) returns true exactly when h is live at the call; after
\* it h is absent, and every other live handle, its matrix and the handle
\* counter are as before; no other step of destroy changes the registry
C12_DestroyFrame ==
    [][\A t \in Threads :
          (op[t] = "destroy" \/ op'[t] = "destroy") =>
              /\ next_id_' = next_id_
              /\ IF pc[t] = "erase" /\ pc'[t] = "unlock"
                 THEN /\ ret'[t].erased = (arg[t].id \in Live)
                      /\ arg[t].id \notin Live'
                      /\ Live' = Live \ {arg[t].id}
                      /\ \A g \in Live' : registry_'[g] = registry_[g]
                 ELSE registry_' = registry_
      ]_vars

\* a destroy of a live handle has returned true while another graph that
\* holds an edge stays live
C12_Witness ==
    \E t \in Threads :
        /\ pc[t] = "unlock" /\ op[t] = "destroy" /\ ret[t].erased = TRUE
        /\ arg[t].id \in DOMAIN pre[t]
        /\ \E g \in Live : registry_[g].n_ = 2 /\ Read(registry_[g], 0, 1) # NO_EDGE

\* the handles that were created and not yet removed by destroy or atexit
CreatedNotRemoved == ever \ removed

\* C13: list_ids() returns exactly the handles that were created and not
\* yet removed by destroy or atexit, each once; exists(h) is true exactly
\* for these handles; after atexit there is none
C13_ListIdsExact ==
    /\ Live = CreatedNotRemoved
    /\ \A t \in Threads :
         pc[t] = "unlock" =>
            /\ op[t] = "list_ids" =>
                  /\ {ret[t].ids[i] : i \in DOMAIN ret[t].ids} = CreatedNotRemoved
                  /\ Cardinality(DOMAIN ret[t].ids) = Cardinality(CreatedNotRemoved)
            /\ op[t] = "exists" => ret[t].contains = (arg[t].id \in CreatedNotRemoved)
            /\ op[t] = "atexit" => CreatedNotRemoved = {}

\* list_ids returns the one live handle after the other one was removed,
\* while an exists on the removed handle returns false
C13_Witness ==
    \E t, u \in Threads :
        /\ pc[t] = "unlock" /\ op[t] = "list_ids" /\ ret[t].ids = <<2>>
        /\ pc[u] = "unlock" /\ op[u] = "exists" /\ arg[u].id = 1 /\ ret[u].contains = FALSE
        /\ removed = {1}

\* set (or bi_set) performed for ls[1], ls[2], ... one after another on mat
RECURSIVE ApplyLines(_, _, _)
ApplyLines(mat, ls, bi) ==
    IF ls = << >> THEN mat
    ELSE ApplyLines(IF bi THEN bi_set(mat, Head(ls).u, Head(ls).v, Head(ls).weight)
                          ELSE set(mat, Head(ls).u, Head(ls).v, Head(ls).weight),
                    Tail(ls), bi)

\* the positions of the lines of ls that write cell (i, j)
Targeting(ls, bi, i, j) ==
    {a \in 1..Len(ls) : \/ ls[a].u = i /\ ls[a].v = j
                        \/ bi /\ ls[a].u = j /\ ls[a].v = i}

\* the largest member of a non-empty set of numbers
Last(S) == CHOOSE a \in S : \A b \in S : b <= a

\* C15: a successful bash_set(h, edges, bi) applies the writes in the order
\* of the list: the final matrix is the result of set (or bi_set) for
\* edges[0], edges[1], ... one after another, and a cell that several edges
\* target holds the weight of the last of them
C15_BatchInListOrder ==
    \A t \in Threads :
        (pc[t] = "unlock" /\ op[t] = "bash_set" /\ err[t] = NoErr) =>
            /\ it[t] \in Live
            /\ Len(hist[t]) = arg[t].len
            /\ registry_[it[t]] = ApplyLines(pre[t][it[t]], hist[t], arg[t].flag)
            /\ \A i, j \in 0..(registry_[it[t]].n_ - 1) :
                  LET w == Targeting(hist[t], arg[t].flag, i, j)
                  IN Read(registry_[it[t]], i, j) =
                        IF w = {} THEN Read(pre[t][it[t]], i, j)
                        ELSE hist[t][Last(w)].weight

\* a bash_set has succeeded whose two edges target the same cell with
\* different weights
C15_Witness ==
    \E t \in Threads :
        /\ pc[t] = "unlock" /\ op[t] = "bash_set" /\ err[t] = NoErr
        /\ Len(hist[t]) = 2
        /\ hist[t][1].u = hist[t][2].u /\ hist[t][1].v = hist[t][2].v
        /\ hist[t][1].weight # hist[t][2].weight

\* C16: when create(n) returns the handle h, h is live with a matrix of
\* size n whose every cell reads 0, and every handle that was live before
\* and its matrix are unchanged; no step of a set or a bash_set changes the
\* size of a matrix
C16_CreateFrame ==
    \A t \in Threads :
        /\ (pc[t] = "unlock" /\ op[t] = "create") =>
              /\ ret[t].id \in Live /\ ret[t].id \notin DOMAIN pre[t]
              /\ Live = DOMAIN pre[t] \cup {ret[t].id}
              /\ registry_[ret[t].id].n_ = arg[t].size
              /\ \A i, j \in 0..(arg[t].size - 1) : Read(registry_[ret[t].id], i, j) = 0
              /\ \A g \in DOMAIN pre[t] : registry_[g] = pre[t][g]
        /\ (InCS(t) /\ op[t] \in {"set", "bash_set"}) =>
              /\ Live = DOMAIN pre[t]
              /\ \A g \in Live :
                    /\ registry_[g].n_ = pre[t][g].n_
                    /\ DOMAIN registry_[g].data_ = DOMAIN pre[t][g].data_

\* create(2) has returned the handle 2 while the graph of handle 1 holds an edge
C16_Witness ==
    \E t \in Threads :
        /\ pc[t] = "unlock" /\ op[t] = "create" /\ ret[t].id = 2 /\ arg[t].size = 2
        /\ 1 \in Live /\ registry_[1].n_ = 2 /\ Read(registry_[1], 1, 0) # NO_EDGE

\* C14: under fair scheduling of the threads and of the lock, every
\* operation that was called takes the lock, and every operation that
\* holds the lock returns; a thread that is not inside an operation (it
\* has returned, normally or with an error, or waits for the lock) does
\* not hold the lock
C14_EveryCallCompletes ==
    \A t \in Threads :
        /\ [](pc[t] \in {"idle", "lock"} => ~Holds(t))
        /\ (pc[t] = "lock") ~> Holds(t)
        /\ Holds(t) ~> (pc[t] = "idle")

\* a mutating call waits for the lock while a query that is about to
\* return with an error holds it
C14_Witness ==
    \E t, u \in Threads :
        /\ pc[t] = "lock" /\ op[t] \in Mutating
        /\ Holds(u) /\ pc[u] = "unlock" /\ err[u] # NoErr /\ op[u] \in Queries

\* the edge (u, v) is present
HasEdge(mat, u, v) == u # v /\ Read(mat, u, v) # NO_EDGE

\* the directed paths over distinct nodes that extend the path p
RECURSIVE PathsFrom(_, _)
PathsFrom(mat, p) ==
    {p} \cup UNION {PathsFrom(mat, Append(p, v)) :
                      v \in {x \in 0..(mat.n_ - 1) :
                               /\ \A i \in DOMAIN p : p[i] # x
                               /\ HasEdge(mat, p[Len(p)], x)}}

\* the sum of the stored weights of the edges of the path p
RECURSIVE PathWeight(_, _)
PathWeight(mat, p) ==
    IF Len(p) <= 1 THEN 0
    ELSE Read(mat, p[1], p[2]) + PathWeight(mat, Tail(p))

\* the smallest member of a non-empty set of numbers
Least(S) == CHOOSE a \in S : \A b \in S : a <= b

\* a query of the algorithm o has returned a value
Returned(t, o) == pc[t] = "unlock" /\ op[t] = o /\ err[t] = NoErr /\ it[t] \in Live

\* C17: shortest_path(start, weighed = false), start < n, returns d with
\* d[start] = 0, d[v] = the minimum number of edges of a directed path
\* start -> v for every v reachable from start, and d[v] = INT32_MAX for
\* every other v
C17_BfsDistances ==
    \A t \in Threads :
        (Returned(t, "shortest_path") /\ ~arg[t].flag) =>
            LET mat == registry_[it[t]]
                P == PathsFrom(mat, <<arg[t].node>>)
            IN /\ DOMAIN ret[t].dist = 0..(mat.n_ - 1)
               /\ ret[t].dist[arg[t].node] = 0
               /\ \A v \in 0..(mat.n_ - 1) :
                     LET Pv == {p \in P : p[Len(p)] = v}
                     IN ret[t].dist[v] = IF Pv = {} THEN 2147483647
                                    ELSE Least({Len(p) - 1 : p \in Pv})

\* the undirected unit path 0-1-2-3 gives [0, 1, 2, 3] from 0
C17_Witness ==
    \E t \in Threads :
        /\ Returned(t, "shortest_path") /\ ~arg[t].flag /\ arg[t].node = 0
        /\ registry_[it[t]].n_ = 4
        /\ \A i, j \in 0..3 :
              Read(registry_[it[t]], i, j) = IF i - j \in {1, -1} THEN 1 ELSE 0
        /\ ret[t].dist = [v \in 0..3 |-> v]

\* C18: shortest_path(start, weighed = true), start < n, returns d with
\* d[start] = 0, d[v] = the minimum over the directed paths start -> v of
\* the sum of the stored weights for every reachable v, and d[v] =
\* INT32_MAX for every other v
C18_DijkstraDistances ==
    \A t \in Threads :
        (Returned(t, "shortest_path") /\ arg[t].flag) =>
            LET mat == registry_[it[t]]
                P == PathsFrom(mat, <<arg[t].node>>)
            IN /\ DOMAIN ret[t].dist = 0..(mat.n_ - 1)
               /\ ret[t].dist[arg[t].node] = 0
               /\ \A v \in 0..(mat.n_ - 1) :
                     LET Pv == {p \in P : p[Len(p)] = v}
                     IN ret[t].dist[v] = IF Pv = {} THEN 2147483647
                                    ELSE Least({PathWeight(mat, p) : p \in Pv})

\* node 1 is first queued with distance 3 over the edge 0 -> 1 and then
\* reached with distance 2 over 0 -> 2 -> 1: the entry (3, 1) is stale
C18_Witness ==
    \E t \in Threads :
        /\ Returned(t, "shortest_path") /\ arg[t].flag /\ arg[t].node = 0
        /\ registry_[it[t]].n_ = 3
        /\ Read(registry_[it[t]], 0, 1) = 3
        /\ Read(registry_[it[t]], 0, 2) = 1
        /\ Read(registry_[it[t]], 2, 1) = 1
        /\ ret[t].dist[1] = 2 /\ ret[t].dist[2] = 1

\* every present edge of the matrix has weight 1
UnitWeights(mat) == \A c \in DOMAIN mat.data_ : mat.data_[c] \in {NO_EDGE, 1}

\* C19: on a matrix in which every present edge has weight 1, symmetric or
\* not, shortest_path(start, false) and shortest_path(start, true) return
\* the same vector for every start < n
C19_BfsEqualsDijkstraOnUnit ==
    \A t \in Threads :
        (Returned(t, "shortest_path") /\ UnitWeights(registry_[it[t]])) =>
            ret[t].dist = shortest_path(registry_[it[t]], arg[t].node, ~arg[t].flag)

\* the weighed call returns on an asymmetric unit matrix with a node at
\* distance 2 and a node that is not reachable
C19_Witness ==
    \E t \in Threads :
        /\ Returned(t, "shortest_path") /\ arg[t].flag
        /\ UnitWeights(registry_[it[t]]) /\ registry_[it[t]].n_ = 4
        /\ \E u, v \in 0..3 : Read(registry_[it[t]], u, v) # Read(registry_[it[t]], v, u)
        /\ \E v \in 0..3 : ret[t].dist[v] = 2
        /\ \E v \in 0..3 : ret[t].dist[v] = 2147483647

\* the cells of mat form a symmetric matrix
Symmetric(mat) == \A i, j \in 0..(mat.n_ - 1) : Read(mat, i, j) = Read(mat, j, i)

\* C20: count_triangles(directed = false) returns the number of triples
\* i < j < k whose cells (i, j), (i, k) and (j, k) are all non-zero; on a
\* symmetric matrix this is the number of sets of three nodes that are
\* pairwise joined
C20_UndirectedTriangles ==
    \A t \in Threads :
        (Returned(t, "count_triangles") /\ ~arg[t].flag) =>
            LET mat == registry_[it[t]]
                N == 0..(mat.n_ - 1)
            IN /\ ret[t].count = Cardinality({tr \in N \X N \X N :
                              /\ tr[1] < tr[2] /\ tr[2] < tr[3]
                              /\ Read(mat, tr[1], tr[2]) # 0
                              /\ Read(mat, tr[1], tr[3]) # 0
                              /\ Read(mat, tr[2], tr[3]) # 0})
               /\ Symmetric(mat) =>
                     ret[t].count = Cardinality({T \in SUBSET N :
                                 /\ Cardinality(T) = 3
                                 /\ \A a, b \in T : a # b => HasEdge(mat, a, b)})

\* the 3-node graph with the bi-directional edges 0-1, 1-2, 2-0 gives 1
C20_Witness ==
    \E t \in Threads :
        /\ Returned(t, "count_triangles") /\ ~arg[t].flag
        /\ registry_[it[t]].n_ = 3
        /\ \A i, j \in 0..2 : i # j => Read(registry_[it[t]], i, j) = 1
        /\ ret[t].count = 1

\* the directed 3-cycles of mat, each named by the rotation that starts at
\* its smallest node: a -> b -> c -> a
Cycles3(mat) ==
    LET N == 0..(mat.n_ - 1)
    IN {tr \in N \X N \X N :
          /\ tr[1] < tr[2] /\ tr[1] < tr[3] /\ tr[2] # tr[3]
          /\ Read(mat, tr[1], tr[2]) # 0
          /\ Read(mat, tr[2], tr[3]) # 0
          /\ Read(mat, tr[3], tr[1]) # 0}

\* C21: count_triangles(directed = true) returns the number of directed
\* 3-cycles i -> j -> k -> i over three distinct nodes, each cycle counted
\* once: the raw sum before the division is three times the number of
\* cycles, so it is a multiple of 3
C21_DirectedTriangles ==
    \A t \in Threads :
        (Returned(t, "count_triangles") /\ arg[t].flag) =>
            LET mat == registry_[it[t]]
            IN /\ ret[t].count = Cardinality(Cycles3(mat))
               /\ DirectedRaw(mat) = 3 * Cardinality(Cycles3(mat))
               /\ DirectedRaw(mat) % 3 = 0

\* the one-way cycle 0 -> 1 -> 2 -> 0 with the extra edge 0 -> 2, which
\* closes no second cycle, gives 1
C21_Witness ==
    \E t \in Threads :
        /\ Returned(t, "count_triangles") /\ arg[t].flag
        /\ registry_[it[t]].n_ = 3
        /\ Read(registry_[it[t]], 0, 1) # 0 /\ Read(registry_[it[t]], 1, 2) # 0
        /\ Read(registry_[it[t]], 2, 0) # 0 /\ Read(registry_[it[t]], 0, 2) # 0
        /\ Read(registry_[it[t]], 1, 0) = 0 /\ Read(registry_[it[t]], 2, 1) = 0
        /\ ret[t].count = 1

\* the number of the non-zero cells of row node, and of column node
\* without the cell (node, node)
RowCount(mat, node) == Cardinality({j \in 0..(mat.n_ - 1) : Read(mat, node, j) # 0})
ColCount(mat, node) ==
    Cardinality({i \in 0..(mat.n_ - 1) : i # node /\ Read(mat, i, node) # 0})

\* C22: get_degree(node, directed), node < n, returns out = the number of
\* non-zero cells of node's row; in = out when directed is false, whatever
\* the column holds; in = the number of non-zero cells of node's column,
\* the self entry excluded, when directed is true
C22_GetDegree ==
    \A t \in Threads :
        Returned(t, "get_degree") =>
            LET mat == registry_[it[t]]
            IN /\ ret[t].out = RowCount(mat, arg[t].node)
               /\ ~arg[t].flag => ret[t].in = ret[t].out
               /\ arg[t].flag => ret[t].in = ColCount(mat, arg[t].node)

\* directed = true on a node with two outgoing edges and one incoming edge
C22_Witness ==
    \E t \in Threads :
        /\ Returned(t, "get_degree") /\ arg[t].flag
        /\ RowCount(registry_[it[t]], arg[t].node) = 2
        /\ ColCount(registry_[it[t]], arg[t].node) = 1
        /\ ret[t] = [out |-> 2, in |-> 1]

\* the members of the vector s, and "no member appears twice"
Members(s) == {s[x] : x \in DOMAIN s}
NoRepeat(s) == \A x, y \in DOMAIN s : x # y => s[x] # s[y]

\* C23: isolated_nodes(directed = false) returns exactly the nodes whose
\* row has no non-zero cell, regardless of their column;
\* isolated_nodes(directed = true) returns exactly the nodes whose row and
\* whose column (self excluded) both have no non-zero cell; each node
\* appears at most once
C23_IsolatedNodes ==
    \A t \in Threads :
        Returned(t, "isolated_nodes") =>
            LET mat == registry_[it[t]]
                N == 0..(mat.n_ - 1)
            IN /\ NoRepeat(ret[t].nodes)
               /\ ~arg[t].flag =>
                     Members(ret[t].nodes) = {i \in N : RowCount(mat, i) = 0}
               /\ arg[t].flag =>
                     Members(ret[t].nodes) =
                        {i \in N : RowCount(mat, i) = 0 /\ ColCount(mat, i) = 0}

\* directed = false returns a node that has an incoming edge and no
\* outgoing one
C23_Witness ==
    \E t \in Threads :
        /\ Returned(t, "isolated_nodes") /\ ~arg[t].flag
        /\ \E i \in Members(ret[t].nodes) :
              RowCount(registry_[it[t]], i) = 0 /\ ColCount(registry_[it[t]], i) > 0

\* the sum of the out-degrees of mat
RECURSIVE RowCountSum(_, _)
RowCountSum(mat, i) == IF i >= mat.n_ THEN 0 ELSE RowCount(mat, i) + RowCountSum(mat, i + 1)

\* the doubles a and b are equal: the same rational
FracEq(a, b) == a.den # 0 /\ b.den # 0 /\ a.num * b.den = b.num * a.den

\* what C24 says of avg, min and max
StatsDegrees(t) ==
    LET mat == registry_[it[t]]
        N == 0..(mat.n_ - 1)
    IN /\ FracEq(ret[t].avg, Frac(RowCountSum(mat, 0), mat.n_))
       /\ \E i \in N : ret[t].min_deg = RowCount(mat, i)
       /\ \A i \in N : ret[t].min_deg <= RowCount(mat, i)
       /\ \E i \in N : ret[t].max_deg = RowCount(mat, i)
       /\ \A i \in N : ret[t].max_deg >= RowCount(mat, i)

\* the unit path 0-1-2-3 gives avg 1.5, min 1, max 2, density 0.5
StatsOfPath(t) ==
    (/\ registry_[it[t]].n_ = 4
     /\ \A i, j \in 0..3 :
           Read(registry_[it[t]], i, j) = IF i - j \in {1, -1} THEN 1 ELSE 0
     /\ ~arg[t].flag)
    => /\ FracEq(ret[t].avg, Frac(3, 2))
       /\ ret[t].min_deg = 1 /\ ret[t].max_deg = 2
       /\ FracEq(ret[t].edge_density, Frac(1, 2))

\* C24 as stated: for every matrix of size n >= 2, degree_stats(directed)
\* returns avg = (sum of out-degrees) / n, min and max = the smallest and
\* the largest out-degree, edge_density = E / (n(n-1)) with E = the sum of
\* the out-degrees when directed, and E / (n(n-1)/2) with E = half of the
\* sum of the out-degrees when not directed; the undirected unit path
\* 0-1-2-3 gives avg 1.5, min 1, max 2, density 0.5
C24_DegreeStats_Original ==
    \A t \in Threads :
        (Returned(t, "degree_stats") /\ registry_[it[t]].n_ >= 2) =>
            LET mat == registry_[it[t]]
                n == mat.n_
                S == RowCountSum(mat, 0)
            IN /\ StatsDegrees(t)
               /\ FracEq(ret[t].edge_density, Frac(S, n * (n - 1)))
               /\ StatsOfPath(t)

\* C24, amended: as above, with E = the sum of the out-degrees divided by
\* 2 and rounded down when not directed (half of the sum on every
\* symmetric matrix, where the sum is even)
C24_DegreeStats ==
    \A t \in Threads :
        (Returned(t, "degree_stats") /\ registry_[it[t]].n_ >= 2) =>
            LET mat == registry_[it[t]]
                n == mat.n_
                S == RowCountSum(mat, 0)
            IN /\ StatsDegrees(t)
               /\ arg[t].flag => FracEq(ret[t].edge_density, Frac(S, n * (n - 1)))
               /\ ~arg[t].flag =>
                     /\ FracEq(ret[t].edge_density, Frac(S \div 2, (n * (n - 1)) \div 2))
                     /\ Symmetric(mat) =>
                           FracEq(ret[t].edge_density, Frac(S, n * (n - 1)))
               /\ StatsOfPath(t)

\* directed = false on the unit path 0-1-2-3 returns 6/4, 1, 2 and 3/6
C24_Witness ==
    \E t \in Threads :
        /\ Returned(t, "degree_stats") /\ ~arg[t].flag
        /\ registry_[it[t]].n_ = 4
        /\ \A i, j \in 0..3 :
              Read(registry_[it[t]], i, j) = IF i - j \in {1, -1} THEN 1 ELSE 0
        /\ ret[t] = [avg |-> Frac(6, 4), min_deg |-> 1, max_deg |-> 2,
                     edge_density |-> Frac(3, 6)]

\* C30: degree_stats on a live graph of any size n >= 0, n = 0 and n = 1
\* included, completes with a defined result: min and max are not taken
\* over an empty list of degrees, and the divisors n, n(n-1) and n(n-1)/2
\* of avg and edge_density are not zero
C30_DegreeStatsDefined ==
    \A t \in Threads :
        (op[t] = "degree_stats" /\ pc[t] \in {"unlock", "fault"} /\ it[t] \in Live) =>
            /\ pc[t] = "unlock" /\ err[t] = NoErr
            /\ DOMAIN Degrees(registry_[it[t]]) # {}
            /\ ret[t].avg.den # 0
            /\ ret[t].edge_density.den # 0

\* C25: get_from(node), node < n, returns exactly the j != node with
\* mat(node, j) != 0, and get_to(node) exactly the i != node with
\* mat(i, node) != 0; hence for all a != b, b is in get_from(a) if and only
\* if a is in get_to(b)
C25_FromTo ==
    \A t \in Threads :
        LET mat == registry_[it[t]]
            N == 0..(mat.n_ - 1)
        IN /\ Returned(t, "get_from") =>
                 /\ Members(ret[t].nodes) =
                       {j \in N : j # arg[t].node /\ Read(mat, arg[t].node, j) # 0}
                 /\ \A b \in N \ {arg[t].node} :
                       b \in Members(ret[t].nodes) <=>
                          arg[t].node \in Members(get_to(mat, b))
           /\ Returned(t, "get_to") =>
                 /\ Members(ret[t].nodes) =
                       {i \in N : i # arg[t].node /\ Read(mat, i, arg[t].node) # 0}
                 /\ \A a \in N \ {arg[t].node} :
                       a \in Members(ret[t].nodes) <=>
                          arg[t].node \in Members(get_from(mat, a))

\* get_to returns on a node with an incoming edge from a node it has no
\* edge to
C25_Witness ==
    \E t \in Threads :
        /\ Returned(t, "get_to")
        /\ \E a \in Members(ret[t].nodes) :
              /\ Read(registry_[it[t]], a, arg[t].node) # 0
              /\ Read(registry_[it[t]], arg[t].node, a) = 0
              /\ arg[t].node \in Members(get_from(registry_[it[t]], a))

PathLen(mat, p, weighed) == IF weighed THEN PathWeight(mat, p) ELSE Len(p) - 1

\* the shortest paths from s to t
ShortestPaths(mat, s, t, weighed) ==
    LET Pt == {p \in PathsFrom(mat, <<s>>) : p[Len(p)] = t}
    IN {p \in Pt : \A r \in Pt : PathLen(mat, p, weighed) <= PathLen(mat, r, weighed)}

\* (number of shortest s-t paths that pass through v) / (number of
\* shortest s-t paths), and 0 for a pair that does not count
PairShare(mat, s, t, v, weighed) ==
    IF s = t \/ s = v \/ t = v THEN Frac(0, 1)
    ELSE LET SP == ShortestPaths(mat, s, t, weighed)
         IN IF SP = {} THEN Frac(0, 1)
            ELSE Frac(Cardinality({p \in SP : \E x \in DOMAIN p : p[x] = v}),
                      Cardinality(SP))

\* the sum of the vector s of quotients
RECURSIVE QSum(_)
QSum(s) == IF DOMAIN s = {} THEN Frac(0, 1) ELSE QAdd(Head(s), QSum(Tail(s)))

\* Brandes' dependency of the source s on v: the sum over the targets t
DeltaOf(mat, s, v, weighed) ==
    QSum([b \in 1..mat.n_ |-> PairShare(mat, s, b - 1, v, weighed)])

\* the sum over the unordered pairs {s, t}
PairSum(mat, v, weighed) ==
    QSum([a \in 1..mat.n_ |->
            QSum([b \in 1..mat.n_ |->
                    IF a < b THEN PairShare(mat, a - 1, b - 1, v, weighed)
                    ELSE Frac(0, 1)])])

\* C27: for every symmetric matrix, betweenness_centrality(weighed)[v] is
\* the sum over the unordered pairs {s, t} of distinct nodes other than v,
\* t reachable from s, of (number of shortest s-t paths through v) /
\* (number of shortest s-t paths), the length of a path being its edge
\* count when weighed is false and its weight sum when weighed is true;
\* it is half of the sum over all sources s != v of the dependency of s
\* on v
C27_Betweenness ==
    \A t \in Threads :
        (Returned(t, "betweenness_centrality") /\ Symmetric(registry_[it[t]])) =>
            LET mat == registry_[it[t]]
                w == arg[t].flag
            IN /\ DOMAIN ret[t].centrality = 0..(mat.n_ - 1)
               /\ \A v \in 0..(mat.n_ - 1) :
                     /\ FracEq(ret[t].centrality[v], PairSum(mat, v, w))
                     /\ FracEq(QAdd(ret[t].centrality[v], ret[t].centrality[v]),
                               QSum([a \in 1..mat.n_ |-> DeltaOf(mat, a - 1, v, w)]))

\* weighed = true on the unit cycle 0-1-2-3-0: each opposite pair has two
\* shortest paths, one through each of the other two nodes, so every node
\* gets 1/2
C27_Witness ==
    \E t \in Threads :
        /\ Returned(t, "betweenness_centrality") /\ arg[t].flag
        /\ registry_[it[t]].n_ = 4
        /\ \A i, j \in 0..3 :
              Read(registry_[it[t]], i, j) = IF (i - j) % 4 \in {1, 3} THEN 1 ELSE 0
        /\ \A v \in 0..3 : ret[t].centrality[v] = Frac(1, 2)

\* C28: a successful directed write set(h, (u, v, w), bi = false) changes
\* only the cell (u, v) of h's matrix: the cell (v, u), every other cell of
\* h, every other live graph, the set of live handles and the handle
\* counter are unchanged by every step of the call, so the matrix may
\* become asymmetric and is not made symmetric again
C28_DirectedSetFrame ==
    [][\A t \in Threads :
          ((op[t] = "set" /\ ~arg[t].flag) \/ (op'[t] = "set" /\ ~arg'[t].flag)) =>
              /\ next_id_' = next_id_
              /\ Live' = Live
              /\ IF pc[t] = "line" /\ k[t] <= arg[t].len /\ err'[t] = NoErr
                 THEN LET h == it[t]
                          ln == l'[t]
                      IN /\ h \in Live
                         /\ \A g \in Live \ {h} : registry_'[g] = registry_[g]
                         /\ registry_'[h].n_ = registry_[h].n_
                         /\ DOMAIN registry_'[h].data_ = DOMAIN registry_[h].data_
                         /\ \A i, j \in 0..(registry_[h].n_ - 1) :
                               Read(registry_'[h], i, j) =
                                  IF i = ln.u /\ j = ln.v THEN ln.weight
                                  ELSE Read(registry_[h], i, j)
                 ELSE registry_' = registry_
      ]_vars

\* a directed set has made the matrix of its graph asymmetric while
\* another graph that holds an edge stays as it was
C28_Witness ==
    \E t \in Threads :
        /\ pc[t] = "unlock" /\ op[t] = "set" /\ ~arg[t].flag /\ err[t] = NoErr
        /\ it[t] \in Live
        /\ Read(pre[t][it[t]], l[t].u, l[t].v) = 0
        /\ Read(registry_[it[t]], l[t].u, l[t].v) = l[t].weight /\ l[t].weight # 0
        /\ Read(registry_[it[t]], l[t].v, l[t].u) = 0
        /\ \E g \in Live \ {it[t]} :
              /\ registry_[g] = pre[t][g]
              /\ \E i, j \in 0..(registry_[g].n_ - 1) : Read(registry_[g], i, j) # 0

\* the digits 0..7 of the products and sums of C29, computed in full
ExactCells(n) == MulFrom(U32(n), U32(n), 0, 0, 7)
ExactOffset(n, i, j) ==
    LET p == [d \in 0..7 |-> MulFrom(U32(i), U32(n), 0, 0, 7)[d + 1]]
        q == [d \in 0..7 |-> IF d <= 3 THEN U32(j)[d] ELSE 0]
    IN AddFrom(p, q, 0, 0, 7)

\* the 32-bit result r is the full result e: nothing was lost to a wrap
NoWrap(r, e) == \A d \in 0..7 : e[d + 1] = IF d <= 3 THEN r[d] ELSE 0

\* C29: for every size n accepted by create, the buffer has exactly n * n
\* cells, and every pair (i, j), i, j < n, that passes the bounds check
\* addresses a cell inside the buffer: the 32-bit products n * n and
\* i * n + j do not wrap modulo 2^32
C29_NoWrap ==
    /\ \A h \in Live : NoWrap(registry_[h].cells_, ExactCells(registry_[h].n_))
    /\ \A t \in Threads :
          (op[t] = "set" /\ pc[t] \in {"unlock", "fault"} /\ err[t] \in {NoErr, Fault}) =>
              /\ NoWrap(ret[t].offset,
                        ExactOffset(registry_[it[t]].n_, l[t].u, l[t].v))
              /\ U32Less(ret[t].offset, registry_[it[t]].cells_)
              /\ pc[t] = "unlock"

====
